---- MODULE Spec2Model ----
(***************************************************************************)
(* The goal controller of the finance manager API: the goal collection     *)
(* and the handlers createGoal, updateGoal, deleteGoal and addFundToGoal.  *)
(* addFundToGoal is modelled await by await, so that a request can be      *)
(* observed between its two saves and two requests can interleave.         *)
(* The budget controller (setBudget, updateBudget, deleteBudget) works on  *)
(* the budgets collection.                                                 *)
(***************************************************************************)
EXTENDS Integers, Sequences, FiniteSets, TLC

\* ------------------------------------------------------------ bounds
\* Largest monetary amount (in base currency) a request or a seed may carry.
MaxAmt == 2
\* Largest amount of a goal whose progress is computed.
MaxProgressAmt == 12
\* Largest amount a budget request may carry.
MaxBudgetAmt == 2
\* Largest amount of the budget whose spending is measured.
MaxMeasuredAmt == 8
\* Largest amount of a transaction, and the most transactions a query returns.
MaxTxAmt == 2
MaxTx == 2

\* ------------------------------------------------------------ domains
Users == {"u1", "u2"}
GoalIds == {"g1", "g2"}
SAVINGS == "Savings Goal"
GoalNames == {SAVINGS, "Trip"}
ShortName == "Go"
BASE_CURRENCY == "LKR"
Currencies == {"LKR", "USD"}
Rate == [LKR |-> 1, USD |-> 2]
Slots == {"r1", "r2"}

IN_PROGRESS == "In Progress"
COMPLETED == "Completed"

BudgetIds == {"b1", "b2", "b3"}
ActiveCategories == {"Food", "Transport"}
Categories == ActiveCategories \cup {"InvalidCategory"}
Durations == {"monthly", "yearly"}
TxTypes == {"income", "expense"}
\* How long ago a transaction is dated.
TxAges == {"thisMonth", "thisYear"}

VARIABLES
    store,   \* the goals collection: _id -> document
    budgets, \* the budgets collection: _id -> document
    rq       \* per request slot: the handler's locals, position and response

vars == <<store, budgets, rq>>

\* ------------------------------------------------------------ external ports
\* services/currencyService.js
convertToBaseCurrency(amount, currency) ==
    IF currency = BASE_CURRENCY THEN amount ELSE amount * Rate[currency]

\* middleware/validator.js goalSchema: name of at least 3 characters, a positive
\* targetAmount, a deadline (when given) in the future.
goalSchemaError(name, targetAmount, deadlineFuture) ==
    IF Len(name) < 3 THEN "\"name\" length must be at least 3 characters long"
    ELSE IF targetAmount <= 0 THEN "\"targetAmount\" must be a positive number"
    ELSE IF ~deadlineFuture THEN "\"deadline\" must be greater than \"now\""
    ELSE ""

\* models/goalModel.js: a new document's defaults.
NewGoal(userId, name, targetAmount) ==
    [userId |-> userId, name |-> name, targetAmount |-> targetAmount,
     currentAmount |-> 0, status |-> IN_PROGRESS]

NoDoc == [userId |-> "", name |-> "", targetAmount |-> 0,
          currentAmount |-> 0, status |-> ""]

EmptyStore == [g \in {} |-> NoDoc]

\* completionRate is a quotient: kept as numerator and denominator.
NoStats ==
    [totalGoals |-> 0, totalTargetAmount |-> 0, totalCurrentAmount |-> 0,
     completedGoals |-> 0, completionRate |-> [num |-> 0, den |-> 1]]

NoProgress == [g \in {} |-> 0]

\* Budget.deleteMany({}): the empty budgets collection.
NoBudgets == [b \in {} |-> NoDoc]

\* The transactions a query may return.
Transactions ==
    [userId : Users, category : ActiveCategories, type : TxTypes,
     amount : 1 .. MaxTxAmt, age : TxAges]

RECURSIVE SeqsUpTo(_, _)
SeqsUpTo(S, n) ==
    IF n = 0 THEN {<<>>}
    ELSE LET shorter == SeqsUpTo(S, n - 1)
         IN shorter \cup {Append(q, x) : q \in shorter, x \in S}

TxCollections == SeqsUpTo(Transactions, MaxTx)

NoReport ==
    [totalIncome |-> 0, totalExpense |-> 0, netBalance |-> 0,
     categoryBreakdown |-> [c \in {} |-> [income |-> 0, expense |-> 0]]]

\* ------------------------------------------------------------ request records
Idle ==
    [op |-> "", pc |-> "idle", userId |-> "", id |-> "", name |-> "",
     category |-> "",
     targetAmount |-> 0, deadlineFuture |-> FALSE,
     hasAmount |-> FALSE, amount |-> 0, currency |-> "", convertedAmount |-> 0,
     savId |-> "", savingsRead |-> NoDoc, savingsGoal |-> NoDoc,
     fundRead |-> NoDoc, goalToFund |-> NoDoc,
     trace |-> <<>>, saved |-> {}, code |-> 0, msg |-> "",
     data |-> {}, stats |-> NoStats, progress |-> NoProgress,
     transactions |-> <<>>, recommendations |-> NoProgress, report |-> NoReport,
     pre |-> EmptyStore]

NewReq(op, userId, id, st) ==
    [Idle EXCEPT !.op = op, !.pc = "run", !.userId = userId, !.id = id, !.pre = st]

Respond(r, code, msg) == [r EXCEPT !.pc = "done", !.code = code, !.msg = msg]

\* res.json({ msg, data }): the goal documents the response carries, each with
\* its _id.
RespondData(r, code, msg, docs) == [Respond(r, code, msg) EXCEPT !.data = docs]

\* Mutant: the filter forgets the owner.
OwnedBy_AnyUser(st, id, userId) == id \in DOMAIN st

\* The filter { _id: id, userId } of findOneAndUpdate and findOneAndDelete.
OwnedBy(st, id, userId) == id \in DOMAIN st /\ st[id].userId = userId

Step(r, name) == [r EXCEPT !.trace = Append(@, name)]

\* One request at a time: a handler starts only when no request is in flight.
Quiet == \A s \in Slots : rq[s].pc = "idle"

\* The response has been sent and the request is over.
finish(s) ==
    /\ rq[s].pc = "done"
    /\ rq' = [rq EXCEPT ![s] = Idle]
    /\ UNCHANGED <<store, budgets>>

\* ------------------------------------------------------------ createGoal
FreshIds == GoalIds \ DOMAIN store

\* Mutant: the converted amount lands in currentAmount as well.
createdGoal_Prefunded(userId, name, convertedAmount) ==
    [NewGoal(userId, name, convertedAmount) EXCEPT !.currentAmount = convertedAmount]

\* new Goal({ userId, name, targetAmount: convertedAmount, deadline })
createdGoal(userId, name, convertedAmount) ==
    NewGoal(userId, name, convertedAmount)

createGoal(userId, name, targetAmount, currency, deadlineFuture) ==
    /\ Quiet
    /\ convertToBaseCurrency(targetAmount, currency) <= MaxAmt
    /\ LET r == [NewReq("createGoal", userId, "", store) EXCEPT
                    !.name = name, !.targetAmount = targetAmount,
                    !.currency = currency, !.deadlineFuture = deadlineFuture]
           err == goalSchemaError(name, targetAmount, deadlineFuture)
       IN IF err # ""
          THEN /\ rq' = [rq EXCEPT !["r1"] = Respond(r, 400, err)]
               /\ UNCHANGED <<store, budgets>>
          ELSE \E id \in FreshIds :
                 /\ UNCHANGED budgets
                 /\ store' = [g \in DOMAIN store \cup {id} |->
                                IF g = id
                                THEN createdGoal(userId, name,
                                         convertToBaseCurrency(targetAmount, currency))
                                ELSE store[g]]
                 /\ rq' = [rq EXCEPT !["r1"] =
                             RespondData([r EXCEPT !.id = id], 200,
                                         "Goal created successfully!", {<<id, store'[id]>>})]

\* ------------------------------------------------------------ updateGoal
\* Goal.findOneAndUpdate({_id, userId}, value): sets the validated fields as
\* the body gives them; the handler does not call convertToBaseCurrency.
updateGoal(userId, id, name, targetAmount, currency, deadlineFuture) ==
    /\ Quiet
    /\ targetAmount <= MaxAmt
    /\ LET r == [NewReq("updateGoal", userId, id, store) EXCEPT
                    !.name = name, !.targetAmount = targetAmount,
                    !.currency = currency, !.deadlineFuture = deadlineFuture]
           err == goalSchemaError(name, targetAmount, deadlineFuture)
       IN IF err # ""
          THEN /\ rq' = [rq EXCEPT !["r1"] = Respond(r, 400, err)]
               /\ UNCHANGED <<store, budgets>>
          ELSE IF OwnedBy(store, id, userId)
          THEN /\ UNCHANGED budgets
               /\ store' = [store EXCEPT ![id].name = name,
                                         ![id].targetAmount = targetAmount]
               /\ rq' = [rq EXCEPT !["r1"] =
                           RespondData(r, 200, "Goal updated successfully",
                                       {<<id, store'[id]>>})]
          ELSE /\ rq' = [rq EXCEPT !["r1"] = Respond(r, 404, "Goal not found")]
               /\ UNCHANGED <<store, budgets>>

\* ------------------------------------------------------------ deleteGoal
\* Mutant: the delete drops the whole collection.
RemoveGoal_All(st, id) == EmptyStore

\* The collection without document id.
RemoveGoal(st, id) == [g \in DOMAIN st \ {id} |-> st[g]]

deleteGoal(userId, id) ==
    /\ Quiet
    /\ LET r == NewReq("deleteGoal", userId, id, store)
       IN IF OwnedBy(store, id, userId)
          THEN /\ UNCHANGED budgets
               /\ store' = RemoveGoal(store, id)
               /\ rq' = [rq EXCEPT !["r1"] = Respond(r, 200, "Goal deleted successfully")]
          ELSE /\ rq' = [rq EXCEPT !["r1"] = Respond(r, 404, "Goal not found")]
               /\ UNCHANGED <<store, budgets>>

\* ------------------------------------------------------------ budgets
\* controllers/budgetController.js, from the specification of the Budget
\* entity (category active, amount > 0, unique (userId, category)), the error
\* taxonomy and the responses the tests expect.
budgetSchemaError(amount) == IF amount > 0 THEN "" ELSE "ValidationError"

\* Mutant: the duplicate check is missing.
HasBudget_Never(bs, userId, category, except) == FALSE

\* The user has a budget for the category, other than the budget except.
HasBudget(bs, userId, category, except) ==
    \E b \in DOMAIN bs \ {except} :
        bs[b].userId = userId /\ bs[b].category = category

newBudget(userId, category, amount, duration) ==
    [userId |-> userId, category |-> category, amount |-> amount,
     duration |-> duration]

BudgetReq(op, userId, id, category, amount) ==
    [NewReq(op, userId, id, EmptyStore) EXCEPT
        !.pre = budgets, !.category = category, !.hasAmount = TRUE,
        !.amount = amount]

setBudget(userId, category, amount, duration) ==
    /\ Quiet
    /\ UNCHANGED store
    /\ LET r == BudgetReq("setBudget", userId, "", category, amount)
           err == budgetSchemaError(amount)
       IN IF err # ""
          THEN /\ rq' = [rq EXCEPT !["r1"] = Respond(r, 400, err)]
               /\ UNCHANGED budgets
          ELSE IF category \notin ActiveCategories
          THEN /\ rq' = [rq EXCEPT !["r1"] =
                           Respond(r, 400, "Invalid or inactive category")]
               /\ UNCHANGED budgets
          ELSE IF HasBudget(budgets, userId, category, "")
          THEN /\ rq' = [rq EXCEPT !["r1"] =
                           Respond(r, 409, "Budget already exists for this category.")]
               /\ UNCHANGED budgets
          ELSE \E id \in BudgetIds \ DOMAIN budgets :
                 /\ budgets' = [b \in DOMAIN budgets \cup {id} |->
                                  IF b = id
                                  THEN newBudget(userId, category, amount, duration)
                                  ELSE budgets[b]]
                 /\ rq' = [rq EXCEPT !["r1"] =
                             RespondData([r EXCEPT !.id = id], 201,
                                         "Budget set successfully!",
                                         {<<id, budgets'[id]>>})]

updateBudget(userId, id, category, amount, duration) ==
    /\ Quiet
    /\ UNCHANGED store
    /\ LET r == BudgetReq("updateBudget", userId, id, category, amount)
           err == budgetSchemaError(amount)
       IN IF err # ""
          THEN /\ rq' = [rq EXCEPT !["r1"] = Respond(r, 400, err)]
               /\ UNCHANGED budgets
          ELSE IF ~OwnedBy(budgets, id, userId)
          THEN /\ rq' = [rq EXCEPT !["r1"] = Respond(r, 404, "Budget not found")]
               /\ UNCHANGED budgets
          ELSE IF category \notin ActiveCategories
          THEN /\ rq' = [rq EXCEPT !["r1"] =
                           Respond(r, 400, "Invalid or inactive category")]
               /\ UNCHANGED budgets
          ELSE IF HasBudget(budgets, userId, category, id)
          THEN /\ rq' = [rq EXCEPT !["r1"] =
                           Respond(r, 409, "Budget already exists for this category.")]
               /\ UNCHANGED budgets
          ELSE /\ budgets' = [budgets EXCEPT ![id] =
                                  newBudget(userId, category, amount, duration)]
               /\ rq' = [rq EXCEPT !["r1"] =
                           RespondData(r, 200, "Budget updated successfully!",
                                       {<<id, budgets'[id]>>})]

deleteBudget(userId, id) ==
    /\ Quiet
    /\ UNCHANGED store
    /\ LET r == BudgetReq("deleteBudget", userId, id, "", 0)
       IN IF OwnedBy(budgets, id, userId)
          THEN /\ budgets' = RemoveGoal(budgets, id)
               /\ rq' = [rq EXCEPT !["r1"] =
                           Respond(r, 200, "Budget deleted successfully")]
          ELSE /\ rq' = [rq EXCEPT !["r1"] = Respond(r, 404, "Budget not found")]
               /\ UNCHANGED budgets

\* ------------------------------------------------------------ getAllGoalsByUser
\* Mutant: the query forgets the owner.
FindByUser_All(st, userId) == DOMAIN st

\* Goal.find({ userId })
FindByUser(st, userId) == {g \in DOMAIN st : st[g].userId = userId}

getAllGoalsByUser(userId) ==
    /\ Quiet
    /\ LET r == NewReq("getAllGoalsByUser", userId, "", store)
           userGoals == FindByUser(store, userId)
       IN rq' = [rq EXCEPT !["r1"] =
                   IF userGoals = {}
                   THEN Respond(r, 404, "No goals found for this user.")
                   ELSE RespondData(r, 200, "User goals retrieved successfully",
                                    {<<g, store[g]>> : g \in userGoals})]
    /\ UNCHANGED <<store, budgets>>

\* ------------------------------------------------------------ getGoalStats
\* goals.reduce((acc, goal) => acc + goal[field], 0)
RECURSIVE reduceSum(_, _, _)
reduceSum(st, goals, field) ==
    IF goals = {} THEN 0
    ELSE LET g == CHOOSE x \in goals : TRUE
         IN st[g][field] + reduceSum(st, goals \ {g}, field)

\* Mutant: every goal counts as completed.
completedOf_All(st, goals) == goals

\* goals.filter((goal) => goal.status === "Completed")
completedOf(st, goals) == {g \in goals : st[g].status = COMPLETED}

\* Mutant: Math.floor in place of Math.round.
progressOf_Floor(goal) ==
    IF goal.currentAmount * 100 > 100 * goal.targetAmount
    THEN 100
    ELSE (goal.currentAmount * 100) \div goal.targetAmount

\* progress > 100 ? 100 : Math.round(progress), with
\* progress = (currentAmount / targetAmount) * 100; Math.round rounds a half up.
progressOf(goal) ==
    IF goal.currentAmount * 100 > 100 * goal.targetAmount
    THEN 100
    ELSE (2 * goal.currentAmount * 100 + goal.targetAmount) \div (2 * goal.targetAmount)

getGoalStats(userId) ==
    /\ Quiet
    /\ LET r == NewReq("getGoalStats", userId, "", store)
           goals == FindByUser(store, userId)
           totalGoals == Cardinality(goals)
           completedGoals == Cardinality(completedOf(store, goals))
           stats == [totalGoals |-> totalGoals,
                     totalTargetAmount |-> reduceSum(store, goals, "targetAmount"),
                     totalCurrentAmount |-> reduceSum(store, goals, "currentAmount"),
                     completedGoals |-> completedGoals,
                     completionRate |->
                        IF totalGoals > 0
                        THEN [num |-> completedGoals * 100, den |-> totalGoals]
                        ELSE [num |-> 0, den |-> 1]]
       IN rq' = [rq EXCEPT !["r1"] =
                   [Respond(r, 200, "Goal statistics retrieved successfully") EXCEPT
                       !.stats = stats,
                       !.progress = [g \in goals |-> progressOf(store[g])]]]
    /\ UNCHANGED <<store, budgets>>

\* ------------------------------------------------------------ aggregators
\* Math.round of the non-negative quotient n / d.
roundDiv(n, d) == (2 * n + d) \div (2 * d)

\* The ages inside the window of a budget duration.
Window(duration) ==
    IF duration = "monthly" THEN {"thisMonth"} ELSE {"thisMonth", "thisYear"}

\* Mutant: income counts as spending too.
Spends_AnyType(t, budget) ==
    /\ t.userId = budget.userId
    /\ t.category = budget.category
    /\ t.age \in Window(budget.duration)

\* The transactions a budget measures: the owner's expenses of its category
\* inside its window.
Spends(t, budget) ==
    /\ t.userId = budget.userId
    /\ t.category = budget.category
    /\ t.type = "expense"
    /\ t.age \in Window(budget.duration)

\* The amount spent against a budget, transaction by transaction.
RECURSIVE spentOn(_, _)
spentOn(txs, budget) ==
    IF txs = <<>> THEN 0
    ELSE (IF Spends(Head(txs), budget) THEN Head(txs).amount ELSE 0)
           + spentOn(Tail(txs), budget)

\* controllers/budgetController.js getBudgetRecommendations, from section 4.2
\* of the specification and the responses the tests expect.
getBudgetRecommendations(userId, txs) ==
    /\ Quiet
    /\ LET r == [NewReq("getBudgetRecommendations", userId, "", EmptyStore) EXCEPT
                    !.pre = budgets, !.transactions = txs]
           own == FindByUser(budgets, userId)
       IN rq' = [rq EXCEPT !["r1"] =
                   IF own = {}
                   THEN Respond(r, 404, "No budgets found for the user.")
                   ELSE [Respond(r, 200, "Budget recommendations generated successfully")
                            EXCEPT !.recommendations =
                                [b \in own |->
                                    roundDiv(spentOn(txs, budgets[b]) * 100,
                                             budgets[b].amount)]]]
    /\ UNCHANGED <<store, budgets>>

\* Mutant: an expense is booked as income of its category.
addToReport_AllIncome(report, t) ==
    LET old == IF t.category \in DOMAIN report.categoryBreakdown
               THEN report.categoryBreakdown[t.category]
               ELSE [income |-> 0, expense |-> 0]
        new == [old EXCEPT !.income = @ + t.amount]
    IN [totalIncome |-> report.totalIncome + (IF t.type = "income" THEN t.amount ELSE 0),
        totalExpense |-> report.totalExpense + (IF t.type = "expense" THEN t.amount ELSE 0),
        netBalance |-> 0,
        categoryBreakdown |->
            [c \in DOMAIN report.categoryBreakdown \cup {t.category} |->
                IF c = t.category THEN new ELSE report.categoryBreakdown[c]]]

\* One transaction added to the totals and to the entry of its category.
addToReport(report, t) ==
    LET old == IF t.category \in DOMAIN report.categoryBreakdown
               THEN report.categoryBreakdown[t.category]
               ELSE [income |-> 0, expense |-> 0]
        new == IF t.type = "income"
               THEN [old EXCEPT !.income = @ + t.amount]
               ELSE [old EXCEPT !.expense = @ + t.amount]
    IN [totalIncome |-> report.totalIncome + (IF t.type = "income" THEN t.amount ELSE 0),
        totalExpense |-> report.totalExpense + (IF t.type = "expense" THEN t.amount ELSE 0),
        netBalance |-> 0,
        categoryBreakdown |->
            [c \in DOMAIN report.categoryBreakdown \cup {t.category} |->
                IF c = t.category THEN new ELSE report.categoryBreakdown[c]]]

RECURSIVE reportOf(_, _)
reportOf(txs, userId) ==
    IF txs = <<>> THEN NoReport
    ELSE LET n == Len(txs)
             rest == reportOf(SubSeq(txs, 1, n - 1), userId)
         IN IF txs[n].userId = userId THEN addToReport(rest, txs[n]) ELSE rest

\* controllers/reportController.js generateReport (format json), from section
\* 4.3 of the specification and the response the test expects.
generateReport(userId, txs) ==
    /\ Quiet
    /\ LET r == [NewReq("generateReport", userId, "", store) EXCEPT
                    !.transactions = txs]
           sums == reportOf(txs, userId)
       IN rq' = [rq EXCEPT !["r1"] =
                   [Respond(r, 200, "Report generated successfully") EXCEPT
                       !.report = [sums EXCEPT
                           !.netBalance = sums.totalIncome - sums.totalExpense]]]
    /\ UNCHANGED <<store, budgets>>

\* ------------------------------------------------------------ addFundToGoal
\* Mutant: the amount check lets zero through.
ValidAmount_AllowsZero(hasAmount, amount) == hasAmount /\ amount >= 0

\* if (!amount || amount <= 0): a missing amount is undefined.
ValidAmount(hasAmount, amount) == hasAmount /\ amount # 0 /\ ~(amount <= 0)

\* Mutant: the Savings Goal lookup forgets the owner.
FindSavingsGoal_AnyUser(st, userId) ==
    {g \in DOMAIN st : st[g].name = SAVINGS}

\* Goal.findOne({ userId, name: "Savings Goal" }): the documents that match.
FindSavingsGoal(st, userId) ==
    {g \in DOMAIN st : st[g].userId = userId /\ st[g].name = SAVINGS}

\* Mutant: the sufficiency check is off by one.
InsufficientFunds_OffByOne(convertedAmount, savingsGoal) ==
    convertedAmount > savingsGoal.currentAmount + 1

\* if (convertedAmount > savingsGoal.currentAmount)
InsufficientFunds(convertedAmount, savingsGoal) ==
    convertedAmount > savingsGoal.currentAmount

\* Mutant: the target lookup forgets the owner.
FindGoalToFund_AnyUser(st, id, userId) ==
    {g \in DOMAIN st : g = id}

\* Goal.findOne({ _id: id, userId })
FindGoalToFund(st, id, userId) ==
    {g \in DOMAIN st : g = id /\ st[g].userId = userId}

\* goalToFund.currentAmount >= goalToFund.targetAmount, after the addition.
ReachesTarget(goalToFund, convertedAmount) ==
    goalToFund.currentAmount + convertedAmount >= goalToFund.targetAmount

\* The in-memory credit of the target document.
Credit(goalToFund, convertedAmount) ==
    IF ReachesTarget(goalToFund, convertedAmount)
    THEN [goalToFund EXCEPT !.currentAmount = goalToFund.targetAmount,
                            !.status = COMPLETED]
    ELSE [goalToFund EXCEPT !.currentAmount = @ + convertedAmount]

\* Mutant: the debit floors the balance but leaves the status alone.
Debit_NoStatusReset(savingsGoal, convertedAmount) ==
    IF savingsGoal.currentAmount - convertedAmount <= 0
    THEN [savingsGoal EXCEPT !.currentAmount = 0]
    ELSE [savingsGoal EXCEPT !.currentAmount = @ - convertedAmount]

\* The in-memory debit of the Savings Goal document.
Debit(savingsGoal, convertedAmount) ==
    IF savingsGoal.currentAmount - convertedAmount <= 0
    THEN [savingsGoal EXCEPT !.currentAmount = 0, !.status = IN_PROGRESS]
    ELSE [savingsGoal EXCEPT !.currentAmount = @ - convertedAmount]

\* doc.save(): an update of the paths the handler modified. currentAmount was
\* assigned a different value by both handlers' arithmetic; status is written
\* only when its assignment changed it.
SaveDoc(st, id, doc, read) ==
    [st EXCEPT ![id].currentAmount = doc.currentAmount,
               ![id].status = IF doc.status # read.status THEN doc.status ELSE @]

\* Lines 180-188: the request's locals after the amount check.
BeginFund(userId, id, hasAmount, amount, currency, st) ==
    LET r == Step([NewReq("addFundToGoal", userId, id, st) EXCEPT
                     !.hasAmount = hasAmount, !.amount = amount,
                     !.currency = currency], "validate")
    IN IF ~ValidAmount(hasAmount, amount)
       THEN Respond(r, 400, "Invalid amount. Must be greater than 0")
       ELSE [r EXCEPT !.pc = "convert"]

FundInputs ==
    {i \in [hasAmount : BOOLEAN, amount : -1 .. MaxAmt, currency : Currencies] :
        /\ convertToBaseCurrency(i.amount, i.currency) <= MaxAmt
        /\ (~i.hasAmount => i.amount = 0 /\ i.currency = BASE_CURRENCY)}

addFundBegin(s, userId, id, in) ==
    /\ Quiet
    /\ rq' = [rq EXCEPT ![s] =
                BeginFund(userId, id, in.hasAmount, in.amount, in.currency, store)]
    /\ UNCHANGED <<store, budgets>>

\* Lines 190-194.
addFundConvert(s) ==
    /\ rq[s].pc = "convert"
    /\ rq' = [rq EXCEPT ![s] =
                [Step(rq[s], "convert") EXCEPT
                    !.convertedAmount = convertToBaseCurrency(rq[s].amount, rq[s].currency),
                    !.pc = "findSavings"]]
    /\ UNCHANGED <<store, budgets>>

\* Lines 195-200: the conversion service fails.
addFundConvertFails(s) ==
    /\ rq[s].pc = "convert"
    /\ rq' = [rq EXCEPT ![s] =
                Respond(Step(rq[s], "convert"), 500, "Error converting currency")]
    /\ UNCHANGED <<store, budgets>>

\* Mutant: the target goal is looked up before the Savings Goal is checked.
addFundFindSavings_TargetFirst(s) ==
    /\ rq[s].pc = "findSavings"
    /\ LET r == Step(rq[s], "findSavings")
           found == FindSavingsGoal(store, r.userId)
       IN IF FindGoalToFund(store, r.id, r.userId) = {}
          THEN rq' = [rq EXCEPT ![s] = Respond(r, 404, "Goal to fund not found")]
          ELSE IF found = {}
          THEN rq' = [rq EXCEPT ![s] = Respond(r, 404, "Savings Goal not found")]
          ELSE \E g \in found :
                 LET r2 == [r EXCEPT !.savId = g, !.savingsRead = store[g],
                                     !.savingsGoal = store[g]]
                 IN rq' = [rq EXCEPT ![s] =
                      IF InsufficientFunds(r.convertedAmount, store[g])
                      THEN Respond(r2, 400, "Insufficient funds in Savings Goal")
                      ELSE [r2 EXCEPT !.pc = "findTarget"]]
    /\ UNCHANGED <<store, budgets>>

\* Lines 202-216.
addFundFindSavings(s) ==
    /\ rq[s].pc = "findSavings"
    /\ LET r == Step(rq[s], "findSavings")
           found == FindSavingsGoal(store, r.userId)
       IN IF found = {}
          THEN rq' = [rq EXCEPT ![s] = Respond(r, 404, "Savings Goal not found")]
          ELSE \E g \in found :
                 LET r2 == [r EXCEPT !.savId = g, !.savingsRead = store[g],
                                     !.savingsGoal = store[g]]
                 IN rq' = [rq EXCEPT ![s] =
                      IF InsufficientFunds(r.convertedAmount, store[g])
                      THEN Respond(r2, 400, "Insufficient funds in Savings Goal")
                      ELSE [r2 EXCEPT !.pc = "findTarget"]]
    /\ UNCHANGED <<store, budgets>>

\* Mutant: both lookups hand out one shared copy of a document, so the debit
\* of a self-funding request starts from the credited balance.
AfterCredit_SharedCopy(r) ==
    [r EXCEPT !.savingsGoal =
                  Debit(IF r.id = r.savId THEN r.goalToFund ELSE r.savingsGoal,
                        r.convertedAmount),
              !.pc = "saveGoalToFund"]

\* Lines 238-245, run once the credit (and its email) are through.
AfterCredit(r) ==
    [r EXCEPT !.savingsGoal = Debit(r.savingsGoal, r.convertedAmount),
              !.pc = "saveGoalToFund"]

\* Mutant: the completion email is skipped.
addFundFindTarget_NoEmail(s) ==
    /\ rq[s].pc = "findTarget"
    /\ LET r == Step(rq[s], "findTarget")
           found == FindGoalToFund(store, r.id, r.userId)
       IN IF found = {}
          THEN rq' = [rq EXCEPT ![s] = Respond(r, 404, "Goal to fund not found")]
          ELSE \E g \in found :
                 rq' = [rq EXCEPT ![s] =
                          AfterCredit([r EXCEPT
                              !.fundRead = store[g],
                              !.goalToFund = Credit(store[g], r.convertedAmount)])]
    /\ UNCHANGED <<store, budgets>>

\* Lines 218-231 (and 238-245 when no email is due).
addFundFindTarget(s) ==
    /\ rq[s].pc = "findTarget"
    /\ LET r == Step(rq[s], "findTarget")
           found == FindGoalToFund(store, r.id, r.userId)
       IN IF found = {}
          THEN rq' = [rq EXCEPT ![s] = Respond(r, 404, "Goal to fund not found")]
          ELSE \E g \in found :
                 LET r2 == [r EXCEPT !.fundRead = store[g],
                                     !.goalToFund = Credit(store[g], r.convertedAmount)]
                 IN rq' = [rq EXCEPT ![s] =
                      IF ReachesTarget(store[g], r.convertedAmount)
                      THEN [r2 EXCEPT !.pc = "sendEmail"]
                      ELSE AfterCredit(r2)]
    /\ UNCHANGED <<store, budgets>>

\* Lines 232-245: the completion email is sent.
addFundSendEmail(s) ==
    /\ rq[s].pc = "sendEmail"
    /\ rq' = [rq EXCEPT ![s] = AfterCredit(Step(rq[s], "sendEmail"))]
    /\ UNCHANGED <<store, budgets>>

\* Line 235 throws: the outer catch answers 500.
addFundSendEmailFails(s) ==
    /\ rq[s].pc = "sendEmail"
    /\ rq' = [rq EXCEPT ![s] = Respond(Step(rq[s], "sendEmail"), 500, "Error funding goal")]
    /\ UNCHANGED <<store, budgets>>

\* Mutant: the first save writes the Savings Goal.
addFundSaveGoalToFund_SavingsFirst(s) ==
    /\ rq[s].pc = "saveGoalToFund"
    /\ rq[s].savId \in DOMAIN store
    /\ UNCHANGED budgets
    /\ store' = SaveDoc(store, rq[s].savId, rq[s].savingsGoal, rq[s].savingsRead)
    /\ rq' = [rq EXCEPT ![s] =
                [Step(rq[s], "saveGoalToFund") EXCEPT
                    !.saved = @ \cup {"savingsGoal"}, !.pc = "saveSavingsGoal"]]

\* Line 248.
addFundSaveGoalToFund(s) ==
    /\ rq[s].pc = "saveGoalToFund"
    /\ rq[s].id \in DOMAIN store
    /\ UNCHANGED budgets
    /\ store' = SaveDoc(store, rq[s].id, rq[s].goalToFund, rq[s].fundRead)
    /\ rq' = [rq EXCEPT ![s] =
                [Step(rq[s], "saveGoalToFund") EXCEPT
                    !.saved = @ \cup {"goalToFund"}, !.pc = "saveSavingsGoal"]]

\* Line 248 throws.
addFundSaveGoalToFundFails(s) ==
    /\ rq[s].pc = "saveGoalToFund"
    /\ rq' = [rq EXCEPT ![s] =
                Respond(Step(rq[s], "saveGoalToFund"), 500, "Error funding goal")]
    /\ UNCHANGED <<store, budgets>>

\* Lines 249-260.
addFundSaveSavingsGoal(s) ==
    /\ rq[s].pc = "saveSavingsGoal"
    /\ rq[s].savId \in DOMAIN store
    /\ UNCHANGED budgets
    /\ store' = SaveDoc(store, rq[s].savId, rq[s].savingsGoal, rq[s].savingsRead)
    /\ rq' = [rq EXCEPT ![s] =
                RespondData([Step(rq[s], "saveSavingsGoal") EXCEPT
                                !.saved = @ \cup {"savingsGoal"}],
                            200, "Goal funded successfully",
                            {<<rq[s].id, rq[s].goalToFund>>,
                             <<rq[s].savId, rq[s].savingsGoal>>})]

\* Line 249 throws.
addFundSaveSavingsGoalFails(s) ==
    /\ rq[s].pc = "saveSavingsGoal"
    /\ rq' = [rq EXCEPT ![s] =
                Respond(Step(rq[s], "saveSavingsGoal"), 500, "Error funding goal")]
    /\ UNCHANGED <<store, budgets>>

\* ------------------------------------------------------------ initial states
\* Goals as the collection holds them before the requests under study: each
\* within its target, Completed exactly when it has reached it.
SeedGoals ==
    {g \in [userId : Users, name : GoalNames, targetAmount : 1 .. MaxAmt,
            currentAmount : 0 .. MaxAmt, status : {IN_PROGRESS, COMPLETED}] :
        /\ g.currentAmount <= g.targetAmount
        /\ (g.status = COMPLETED) <=> (g.currentAmount = g.targetAmount)}

\* A user has at most one goal named "Savings Goal" to begin with.
SeedStores ==
    {st \in UNION {[D -> SeedGoals] : D \in SUBSET GoalIds} :
        \A g, h \in DOMAIN st :
            (st[g].userId = st[h].userId /\ st[g].name = SAVINGS /\ st[h].name = SAVINGS)
                => g = h}

Init ==
    /\ store \in SeedStores
    /\ budgets = NoBudgets
    /\ rq = [s \in Slots |-> Idle]

\* ------------------------------------------------------------ specifications
\* Request bodies for goalSchema: the valid ones, and one per validation rule.
GoalInputs ==
    [name : GoalNames, targetAmount : 1 .. MaxAmt, deadlineFuture : {TRUE}]
    \cup {[name |-> ShortName, targetAmount |-> 1, deadlineFuture |-> TRUE],
          [name |-> "Trip", targetAmount |-> 0, deadlineFuture |-> TRUE],
          [name |-> "Trip", targetAmount |-> 1, deadlineFuture |-> FALSE]}

FundSteps(s) ==
    \/ addFundConvert(s)
    \/ addFundFindSavings(s)
    \/ addFundFindTarget(s)
    \/ addFundSendEmail(s)
    \/ addFundSaveGoalToFund(s)
    \/ addFundSaveSavingsGoal(s)

FundFaults(s) ==
    \/ addFundConvertFails(s)
    \/ addFundSendEmailFails(s)
    \/ addFundSaveGoalToFundFails(s)
    \/ addFundSaveSavingsGoalFails(s)

Requests ==
    \/ \E u \in Users, in \in GoalInputs, c \in Currencies :
         createGoal(u, in.name, in.targetAmount, c, in.deadlineFuture)
    \/ \E u \in Users, id \in GoalIds, in \in GoalInputs, c \in Currencies :
         updateGoal(u, id, in.name, in.targetAmount, c, in.deadlineFuture)
    \/ \E u \in Users, id \in GoalIds : deleteGoal(u, id)
    \/ \E u \in Users : getAllGoalsByUser(u)
    \/ \E u \in Users : getGoalStats(u)
    \/ \E u \in Users, id \in GoalIds, in \in FundInputs : addFundBegin("r1", u, id, in)
    \/ finish("r1")

\* Requests served one after the other, every port working.
Next == Requests \/ FundSteps("r1")

Spec == Init /\ [][Next]_vars

\* Requests served one after the other; the ports addFundToGoal awaits may fail.
NextFault == Requests \/ FundSteps("r1") \/ FundFaults("r1")

SpecFault == Init /\ [][NextFault]_vars

\* Goal statistics over one goal of any size up to MaxProgressAmt, its
\* currentAmount below, at or above its targetAmount.
ProgressStores ==
    [{"g1"} -> [userId : {"u1"}, name : {"Trip"},
                targetAmount : 1 .. MaxProgressAmt,
                currentAmount : 0 .. MaxProgressAmt,
                status : {IN_PROGRESS, COMPLETED}]]

InitProgress ==
    /\ store \in ProgressStores
    /\ budgets = NoBudgets
    /\ rq = [s \in Slots |-> Idle]

NextProgress ==
    \/ \E u \in Users : getGoalStats(u)
    \/ finish("r1")

SpecProgress == InitProgress /\ [][NextProgress]_vars

\* The budget requests, one after the other, from an empty collection.
InitBudget ==
    /\ store = EmptyStore
    /\ budgets = NoBudgets
    /\ rq = [s \in Slots |-> Idle]

NextBudget ==
    \/ \E u \in Users, c \in Categories, a \in 0 .. MaxBudgetAmt, d \in Durations :
         setBudget(u, c, a, d)
    \/ \E u \in Users, id \in BudgetIds, c \in Categories,
          a \in 0 .. MaxBudgetAmt, d \in Durations :
         updateBudget(u, id, c, a, d)
    \/ \E u \in Users, id \in BudgetIds : deleteBudget(u, id)
    \/ finish("r1")

SpecBudget == InitBudget /\ [][NextBudget]_vars

\* Two addFundToGoal requests of one user in flight together, past their
\* amount check, over that user's Savings Goal and a second goal.
ConcStores ==
    {st \in [GoalIds -> SeedGoals] :
        /\ \A g \in GoalIds : st[g].userId = "u1"
        /\ st["g1"].name = SAVINGS
        /\ st["g2"].name = "Trip"}

InitConc ==
    \E st \in ConcStores, id1 \in GoalIds, id2 \in GoalIds,
       in1 \in FundInputs, in2 \in FundInputs :
        /\ ValidAmount(in1.hasAmount, in1.amount)
        /\ ValidAmount(in2.hasAmount, in2.amount)
        /\ store = st
        /\ budgets = NoBudgets
        /\ rq = [s \in Slots |->
                   IF s = "r1"
                   THEN BeginFund("u1", id1, in1.hasAmount, in1.amount, in1.currency, st)
                   ELSE BeginFund("u1", id2, in2.hasAmount, in2.amount, in2.currency, st)]

NextConc == \E s \in Slots : FundSteps(s)

SpecConc == InitConc /\ [][NextConc]_vars

\* The recommendations over one measured budget of u1, with or without a second
\* budget beside it, and every collection of transactions.
MeasuredBudgets ==
    LET first == [{"b1"} -> [userId : {"u1"}, category : {"Food"},
                             amount : 1 .. MaxMeasuredAmt, duration : Durations]]
        second == {newBudget("u1", "Transport", 1, "monthly"),
                   newBudget("u2", "Food", 1, "yearly")}
    IN first \cup {[b \in {"b1", "b2"} |-> IF b = "b1" THEN f["b1"] ELSE x] :
                      f \in first, x \in second}

InitAggregate ==
    /\ store = EmptyStore
    /\ budgets \in MeasuredBudgets
    /\ rq = [s \in Slots |-> Idle]

NextAggregate ==
    \/ Quiet /\ \E u \in Users, txs \in TxCollections :
                   getBudgetRecommendations(u, txs)
    \/ finish("r1")

SpecAggregate == InitAggregate /\ [][NextAggregate]_vars

\* The trends report over every collection of transactions.
InitReport ==
    /\ store = EmptyStore
    /\ budgets = NoBudgets
    /\ rq = [s \in Slots |-> Idle]

NextReport ==
    \/ Quiet /\ \E u \in Users, txs \in TxCollections : generateReport(u, txs)
    \/ finish("r1")

SpecReport == InitReport /\ [][NextReport]_vars

\* A client that re-submits an addFundToGoal request after its 200 response:
\* the same user, id and body, served like any other request.
retryFund ==
    /\ rq["r1"].pc = "done"
    /\ rq["r1"].op = "addFundToGoal"
    /\ rq["r1"].code = 200
    /\ rq["r2"].pc = "idle"
    /\ rq' = [rq EXCEPT !["r2"] =
                BeginFund(rq["r1"].userId, rq["r1"].id, rq["r1"].hasAmount,
                          rq["r1"].amount, rq["r1"].currency, store)]
    /\ UNCHANGED <<store, budgets>>

InitRetry ==
    \E st \in ConcStores, id \in GoalIds, in \in FundInputs :
        /\ ValidAmount(in.hasAmount, in.amount)
        /\ store = st
        /\ budgets = NoBudgets
        /\ rq = [s \in Slots |->
                   IF s = "r1"
                   THEN BeginFund("u1", id, in.hasAmount, in.amount, in.currency, st)
                   ELSE Idle]

NextRetry == FundSteps("r1") \/ retryFund \/ FundSteps("r2")

SpecRetry == InitRetry /\ [][NextRetry]_vars

\* ------------------------------------------------------------ properties
R == rq["r1"]

FundDone == R.pc = "done" /\ R.op = "addFundToGoal"

NoRequestInFlight == \A s \in Slots : rq[s].pc \in {"idle", "done"}

C2_CompletedIffReached ==
    NoRequestInFlight =>
        \A g \in DOMAIN store :
            (store[g].status = COMPLETED) <=>
                (store[g].currentAmount = store[g].targetAmount)

\* C3: a successful addFundToGoal of converted amount a lowers the Savings Goal
\* by exactly a, raises the target by exactly a, and keeps their sum.
C3_ExactTransfer ==
    (FundDone /\ R.code = 200) =>
        LET a == R.convertedAmount
            sav == R.savId
            tgt == R.id
        IN /\ store[sav].currentAmount = R.pre[sav].currentAmount - a
           /\ store[tgt].currentAmount = R.pre[tgt].currentAmount + a
           /\ store[tgt].currentAmount + store[sav].currentAmount
                = R.pre[tgt].currentAmount + R.pre[sav].currentAmount

\* C4: a request whose converted amount exceeds the balance of the Savings Goal
\* it loaded is answered 400 "Insufficient funds in Savings Goal" and writes
\* nothing.
C4_InsufficientFundsRejected ==
    (/\ FundDone
     /\ R.savId # ""
     /\ convertToBaseCurrency(R.amount, R.currency) > R.pre[R.savId].currentAmount)
    => /\ R.code = 400
       /\ R.msg = "Insufficient funds in Savings Goal"
       /\ R.saved = {}
       /\ store = R.pre

C4_Witness ==
    /\ FundDone
    /\ R.savId # ""
    /\ R.pre[R.savId].currentAmount = 1
    /\ R.convertedAmount = 2
    /\ R.code = 400
    /\ R.id \in DOMAIN store
    /\ store[R.id].userId = R.userId

\* C5: when an addFundToGoal request has finished, with 200 or with an error,
\* either both the credit and the debit are stored or neither is.
C5_AllOrNothing ==
    FundDone =>
        \/ R.saved = {} /\ store = R.pre
        \/ /\ R.saved = {"goalToFund", "savingsGoal"}
           /\ store[R.savId].currentAmount = R.savingsGoal.currentAmount

\* The stores a request leaves when it runs alone on st.
SerialFund(st, r) ==
    LET a == convertToBaseCurrency(r.amount, r.currency)
        sav == FindSavingsGoal(st, r.userId)
    IN IF sav = {} THEN {st}
       ELSE {IF InsufficientFunds(a, st[g]) \/ FindGoalToFund(st, r.id, r.userId) = {}
             THEN st
             ELSE SaveDoc(SaveDoc(st, r.id, Credit(st[r.id], a), st[r.id]),
                          g, Debit(st[g], a), st[g]) : g \in sav}

SerialOutcomes(st, r, q) == UNION {SerialFund(mid, q) : mid \in SerialFund(st, r)}

\* C6: two interleaved addFundToGoal requests of one user leave the store that
\* one of their two serial orders leaves.
C6_Serializable ==
    (\A s \in Slots : rq[s].pc = "done") =>
        store \in SerialOutcomes(rq["r1"].pre, rq["r1"], rq["r2"])
                    \cup SerialOutcomes(rq["r1"].pre, rq["r2"], rq["r1"])

\* C7: a request with a positive amount by a user without a "Savings Goal" is
\* answered 404 and changes no goal, also when the target exists and is the
\* caller's.
C7_NoSavingsGoalNotFound ==
    (/\ FundDone
     /\ R.hasAmount /\ R.amount > 0
     /\ \A g \in DOMAIN R.pre :
            ~(R.pre[g].userId = R.userId /\ R.pre[g].name = SAVINGS))
    => /\ R.code = 404
       /\ R.msg = "Savings Goal not found"
       /\ R.saved = {}
       /\ store = R.pre

C7_Witness ==
    /\ FundDone
    /\ R.hasAmount /\ R.amount > 0
    /\ \A g \in DOMAIN R.pre : ~(R.pre[g].userId = R.userId /\ R.pre[g].name = SAVINGS)
    /\ R.id \in DOMAIN R.pre
    /\ R.pre[R.id].userId = R.userId
    /\ \E g \in DOMAIN R.pre : R.pre[g].userId # R.userId /\ R.pre[g].name = SAVINGS
    /\ R.code = 404

\* C8: a request past the amount and sufficiency checks whose target id is
\* absent or belongs to another user is answered 404 and changes no goal.
C8_TargetNotFound ==
    (/\ FundDone
     /\ R.hasAmount /\ R.amount > 0
     /\ R.savId # ""
     /\ convertToBaseCurrency(R.amount, R.currency) <= R.pre[R.savId].currentAmount
     /\ (R.id \notin DOMAIN R.pre \/ R.pre[R.id].userId # R.userId))
    => /\ R.code = 404
       /\ R.msg = "Goal to fund not found"
       /\ R.saved = {}
       /\ store = R.pre

C8_Witness ==
    /\ FundDone
    /\ R.savId # ""
    /\ R.convertedAmount > 0
    /\ R.convertedAmount <= R.pre[R.savId].currentAmount
    /\ R.id \in DOMAIN R.pre
    /\ R.pre[R.id].userId # R.userId
    /\ R.code = 404

\* C9: a request whose amount is missing, zero or negative is answered 400
\* with nothing run but the amount check: no conversion, no lookup, no write.
C9_InvalidAmountRejected ==
    (FundDone /\ (~R.hasAmount \/ R.amount <= 0))
    => /\ R.code = 400
       /\ R.msg = "Invalid amount. Must be greater than 0"
       /\ R.trace = <<"validate">>
       /\ R.savId = ""
       /\ R.saved = {}
       /\ store = R.pre

C9_Witness ==
    /\ FundDone
    /\ R.hasAmount /\ R.amount = 0
    /\ R.code = 400
    /\ \E g \in DOMAIN store :
          /\ store[g].userId = R.userId /\ store[g].name = SAVINGS
    /\ R.id \in DOMAIN store /\ store[R.id].userId = R.userId

\* C10: after a successful addFundToGoal of converted amount a on a target with
\* old amount c and target amount T, the stored target is (T, Completed) with a
\* notification sent when c + a >= T, and (c + a, old status) with none sent
\* when c + a < T.
C10_TargetCredited ==
    (FundDone /\ R.code = 200) =>
        LET a == R.convertedAmount
            old == R.pre[R.id]
            new == store[R.id]
            notified == \E i \in DOMAIN R.trace : R.trace[i] = "sendEmail"
        IN IF old.currentAmount + a >= old.targetAmount
           THEN /\ new.currentAmount = old.targetAmount
                /\ new.status = COMPLETED
                /\ notified
           ELSE /\ new.currentAmount = old.currentAmount + a
                /\ new.status = old.status
                /\ ~notified

\* C11: after a successful addFundToGoal of converted amount a on a target
\* other than the Savings Goal, the stored Savings Goal holds max(0, s - a); at
\* 0 it is In Progress, above 0 it keeps the status it had.
C11_SavingsDebited ==
    (FundDone /\ R.code = 200 /\ R.id # R.savId) =>
        LET a == R.convertedAmount
            old == R.pre[R.savId]
            new == store[R.savId]
        IN /\ new.currentAmount =
                (IF old.currentAmount - a > 0 THEN old.currentAmount - a ELSE 0)
           /\ (new.currentAmount = 0 => new.status = IN_PROGRESS)
           /\ (new.currentAmount > 0 => new.status = old.status)

C11_Witness ==
    /\ FundDone /\ R.code = 200 /\ R.id # R.savId
    /\ R.pre[R.savId].status = COMPLETED
    /\ R.pre[R.savId].currentAmount = R.convertedAmount
    /\ store[R.savId].currentAmount = 0
    /\ store[R.savId].status = IN_PROGRESS

\* C12: a goal's status changes only from In Progress to Completed in a step
\* that brings currentAmount to targetAmount, or from Completed to In Progress
\* in a step that brings currentAmount below targetAmount; and every step that
\* lowers a Completed goal's currentAmount below its target makes it In Progress.
C12_StatusMachine ==
    [][\A g \in DOMAIN store \cap DOMAIN store' :
         LET old == store[g]
             new == store'[g]
         IN /\ (old.status # new.status) =>
                 \/ /\ old.status = IN_PROGRESS /\ new.status = COMPLETED
                    /\ new.currentAmount = new.targetAmount
                 \/ /\ old.status = COMPLETED /\ new.status = IN_PROGRESS
                    /\ new.currentAmount < new.targetAmount
            /\ (/\ old.status = COMPLETED
                /\ new.currentAmount < old.currentAmount
                /\ new.currentAmount < new.targetAmount)
               => new.status = IN_PROGRESS]_vars

\* C13: each user owns at most one goal named "Savings Goal".
C13_OneSavingsGoalPerUser ==
    \A g, h \in DOMAIN store :
        (/\ store[g].userId = store[h].userId
         /\ store[g].name = SAVINGS
         /\ store[h].name = SAVINGS) => g = h

\* The caller's goals before the request.
OwnBefore == {g \in DOMAIN R.pre : R.pre[g].userId = R.userId}

\* C14: a finished goal request of user A leaves every goal of another user
\* stored and unchanged, and its response carries goals of A only.
C14_OwnershipFrame ==
    (R.op # "") =>
        /\ \A g \in DOMAIN R.pre \ OwnBefore :
              g \in DOMAIN store /\ store[g] = R.pre[g]
        /\ \A d \in R.data : d[2].userId = R.userId

C14_Witness ==
    /\ R.pc = "done"
    /\ R.op \in {"updateGoal", "deleteGoal"}
    /\ R.id \in DOMAIN R.pre
    /\ R.pre[R.id].userId # R.userId
    /\ R.pre[R.id].currentAmount > 0
    /\ OwnBefore # {}
    /\ R.code = 404

\* C15: createGoal with a valid body answers 200 and stores exactly one new
\* goal, the caller's, at currentAmount 0 and In Progress; with a targetAmount
\* <= 0, a name shorter than 3 or a deadline not in the future it answers 400
\* and stores nothing.
C15_CreateGoal ==
    (R.pc = "done" /\ R.op = "createGoal") =>
        IF Len(R.name) >= 3 /\ R.targetAmount > 0 /\ R.deadlineFuture
        THEN /\ R.code = 200
             /\ R.id \notin DOMAIN R.pre
             /\ DOMAIN store = DOMAIN R.pre \cup {R.id}
             /\ \A g \in DOMAIN R.pre : store[g] = R.pre[g]
             /\ store[R.id].userId = R.userId
             /\ store[R.id].name = R.name
             /\ store[R.id].currentAmount = 0
             /\ store[R.id].status = IN_PROGRESS
        ELSE /\ R.code = 400
             /\ store = R.pre

C15_Witness ==
    /\ R.pc = "done" /\ R.op = "createGoal" /\ R.code = 200
    /\ R.targetAmount = 1 /\ R.currency = "USD"
    /\ DOMAIN R.pre # {}
    /\ store[R.id].currentAmount = 0

\* C16: deleteGoal of a goal the caller owns answers 200, removes that goal
\* and nothing else; of an absent or foreign id it answers 404 "Goal not
\* found" and leaves the store as it was.
C16_DeleteGoal ==
    (R.pc = "done" /\ R.op = "deleteGoal") =>
        IF R.id \in OwnBefore
        THEN /\ R.code = 200
             /\ DOMAIN store = DOMAIN R.pre \ {R.id}
             /\ \A g \in DOMAIN store : store[g] = R.pre[g]
        ELSE /\ R.code = 404
             /\ R.msg = "Goal not found"
             /\ store = R.pre

C16_Witness ==
    /\ R.pc = "done" /\ R.op = "deleteGoal" /\ R.code = 200
    /\ R.id \notin DOMAIN store
    /\ DOMAIN store # {}

\* C17: getAllGoalsByUser answers 404 "No goals found for this user." exactly
\* when the caller owns no goal, otherwise 200 with exactly the caller's
\* goals; the store is unchanged.
C17_GetAllGoals ==
    (R.pc = "done" /\ R.op = "getAllGoalsByUser") =>
        /\ store = R.pre
        /\ IF OwnBefore = {}
           THEN R.code = 404 /\ R.msg = "No goals found for this user."
           ELSE R.code = 200 /\ R.data = {<<g, R.pre[g]>> : g \in OwnBefore}

C17_Witness ==
    /\ R.pc = "done" /\ R.op = "getAllGoalsByUser" /\ R.code = 200
    /\ DOMAIN store \ OwnBefore # {}

\* The sum of a field over goals, counted value by value.
RECURSIVE SumByValue(_, _, _, _)
SumByValue(v, st, goals, field) ==
    IF v <= 0 THEN 0
    ELSE v * Cardinality({g \in goals : st[g][field] = v})
           + SumByValue(v - 1, st, goals, field)

\* C18: getGoalStats answers 200 for every caller with the count of the
\* caller's goals, the sums of their targetAmount and currentAmount, the count
\* of the Completed ones and completionRate = completedGoals / totalGoals * 100
\* (0 without goals); the store is unchanged.
C18_GoalStats ==
    (R.pc = "done" /\ R.op = "getGoalStats") =>
        LET completed == {g \in OwnBefore : R.pre[g].status = COMPLETED}
            rate == R.stats.completionRate
        IN /\ R.code = 200
           /\ store = R.pre
           /\ \A g \in OwnBefore :
                 R.pre[g].targetAmount <= MaxAmt /\ R.pre[g].currentAmount <= MaxAmt
           /\ R.stats.totalGoals = Cardinality(OwnBefore)
           /\ R.stats.totalTargetAmount =
                 SumByValue(MaxAmt, R.pre, OwnBefore, "targetAmount")
           /\ R.stats.totalCurrentAmount =
                 SumByValue(MaxAmt, R.pre, OwnBefore, "currentAmount")
           /\ R.stats.completedGoals = Cardinality(completed)
           /\ rate.den > 0
           /\ IF OwnBefore = {}
              THEN rate.num = 0
              ELSE rate.num * Cardinality(OwnBefore)
                     = Cardinality(completed) * 100 * rate.den

C18_Witness ==
    /\ R.pc = "done" /\ R.op = "getGoalStats"
    /\ R.stats.totalGoals = 2
    /\ R.stats.completedGoals = 1
    /\ R.stats.completionRate.num = 50 * R.stats.completionRate.den
    /\ R.stats.totalTargetAmount = 3
    /\ R.stats.totalCurrentAmount = 2

C24_BaseCurrencyNormalized ==
    /\ (R.pc = "done" /\ R.op \in {"createGoal", "updateGoal"} /\ R.code = 200)
          => store[R.id].targetAmount = R.targetAmount * Rate[R.currency]
    /\ (FundDone /\ R.code = 200)
          => R.convertedAmount = R.amount * Rate[R.currency]

\* The createGoal and addFundToGoal part of C24, which the code keeps.
C24_CreateAndFundNormalized ==
    /\ (R.pc = "done" /\ R.op = "createGoal" /\ R.code = 200)
          => store[R.id].targetAmount = R.targetAmount * Rate[R.currency]
    /\ (FundDone /\ R.code = 200)
          => R.convertedAmount = R.amount * Rate[R.currency]

\* The checks of addFundToGoal in the order of the source.
CheckOrder == <<"validate", "convert", "findSavings", "findTarget">>

\* The caller's Savings Goals before the request.
SavingsBefore == {g \in OwnBefore : R.pre[g].name = SAVINGS}

\* C23: addFundToGoal runs its checks in the order amount > 0, conversion,
\* Savings Goal exists, converted <= balance, target exists and is the
\* caller's, and answers with the error of the first check that fails: with
\* insufficient funds and a missing target 400, with no Savings Goal and a
\* missing target 404 "Savings Goal not found".
C23_CheckOrder ==
    FundDone =>
        LET conv == R.amount * Rate[R.currency]
        IN /\ \A i \in 1 .. Len(R.trace) :
                 i <= Len(CheckOrder) => R.trace[i] = CheckOrder[i]
           /\ IF ~(R.hasAmount /\ R.amount > 0)
              THEN /\ R.code = 400
                   /\ R.msg = "Invalid amount. Must be greater than 0"
                   /\ R.trace = <<"validate">>
              ELSE IF R.code = 500 /\ R.msg = "Error converting currency"
              THEN R.trace = <<"validate", "convert">>
              ELSE IF SavingsBefore = {}
              THEN /\ R.code = 404
                   /\ R.msg = "Savings Goal not found"
                   /\ Len(R.trace) = 3
              ELSE IF R.savId \in SavingsBefore
                        /\ conv > R.pre[R.savId].currentAmount
              THEN /\ R.code = 400
                   /\ R.msg = "Insufficient funds in Savings Goal"
                   /\ Len(R.trace) = 3
              ELSE IF R.id \notin OwnBefore
              THEN /\ R.code = 404
                   /\ R.msg = "Goal to fund not found"
                   /\ Len(R.trace) = 4
              ELSE /\ R.savId \in SavingsBefore
                   /\ R.code \in {200, 500}
                   /\ R.code = 500 => R.msg = "Error funding goal"

C23_Witness ==
    /\ FundDone
    /\ R.code = 400
    /\ R.msg = "Insufficient funds in Savings Goal"
    /\ R.id \notin DOMAIN R.pre
    /\ R.currency = "USD"

\* The second case C23 names: no Savings Goal and a missing target.
C23_WitnessNoSavings ==
    /\ FundDone
    /\ R.code = 404
    /\ R.msg = "Savings Goal not found"
    /\ R.id \notin DOMAIN R.pre
    /\ OwnBefore # {}

\* C25: addFundToGoal is idempotent under retry: an identical request sent
\* again after the first succeeded does not transfer a second time, the goals
\* after the retry are the goals after the first request.
C25_IdempotentRetry ==
    (rq["r2"].pc = "done" /\ rq["r2"].op = "addFundToGoal")
        => store = rq["r2"].pre

\* The balance the credit of this request gives the target goal.
CreditedBalance ==
    LET c == R.pre[R.id].currentAmount + R.amount * Rate[R.currency]
        t == R.pre[R.id].targetAmount
    IN IF c >= t THEN t ELSE c

\* C26: addFundToGoal saves the target goal before the Savings Goal. If the
\* first save fails nothing is stored; if the second fails the answer is 500
\* "Error funding goal" with the target credited and the Savings Goal not
\* debited; a debited Savings Goal beside an uncredited target is never stored.
C26_TargetSavedFirst ==
    (R.op = "addFundToGoal") =>
        /\ "savingsGoal" \in R.saved => "goalToFund" \in R.saved
        /\ (R.savId # "" /\ R.id # R.savId /\ store[R.savId] # R.pre[R.savId])
              => store[R.id].currentAmount = CreditedBalance
        /\ (FundDone /\ R.saved = {}) => store = R.pre
        /\ (FundDone /\ R.trace[Len(R.trace)] = "saveGoalToFund")
              => R.saved = {} /\ R.code = 500 /\ R.msg = "Error funding goal"
        /\ (FundDone /\ R.saved = {"goalToFund"})
              => /\ R.code = 500
                 /\ R.msg = "Error funding goal"
                 /\ R.trace[Len(R.trace)] = "saveSavingsGoal"
                 /\ store[R.id].currentAmount = CreditedBalance
                 /\ R.id # R.savId => store[R.savId] = R.pre[R.savId]

C26_Witness ==
    /\ FundDone
    /\ R.saved = {"goalToFund"}
    /\ R.code = 500
    /\ R.id # R.savId
    /\ store[R.id].currentAmount > R.pre[R.id].currentAmount
    /\ store[R.savId] = R.pre[R.savId]

\* The positions of a step in the steps the request has taken.
StepsAt(name) == {i \in 1 .. Len(R.trace) : R.trace[i] = name}

\* C27: the completion notification is sent before either goal is saved: a
\* request that has stored a target it set to Completed sent the notification
\* earlier, and when sending fails the answer is 500 and no goal is written.
C27_NotifyBeforeSave ==
    (R.op = "addFundToGoal") =>
        /\ \A i \in StepsAt("sendEmail") :
              \A j \in StepsAt("saveGoalToFund") \cup StepsAt("saveSavingsGoal") : i < j
        /\ ("goalToFund" \in R.saved /\ CreditedBalance = R.pre[R.id].targetAmount)
              => StepsAt("sendEmail") # {}
        /\ (FundDone /\ R.trace[Len(R.trace)] = "sendEmail")
              => /\ R.code = 500
                 /\ R.saved = {}
                 /\ store = R.pre

C27_Witness ==
    /\ FundDone
    /\ R.code = 200
    /\ R.id # R.savId
    /\ R.pre[R.id].status = IN_PROGRESS
    /\ store[R.id].status = COMPLETED
    /\ StepsAt("sendEmail") = {5}
    /\ StepsAt("saveGoalToFund") = {6}

\* The failure case of C27: the notification could not be sent.
C27_WitnessSendFails ==
    /\ FundDone
    /\ R.code = 500
    /\ R.trace[Len(R.trace)] = "sendEmail"
    /\ store = R.pre

\* C28: when the target of addFundToGoal is the caller's own Savings Goal and
\* the funds suffice, the request succeeds and the stored balance of that goal
\* ends at the old balance minus the converted amount, never above the old
\* balance: the debit, saved second, overwrites the credit.
C28_SelfFundDebits ==
    (/\ FundDone
     /\ R.hasAmount /\ R.amount > 0
     /\ R.id \in SavingsBefore
     /\ R.savId = R.id
     /\ R.amount * Rate[R.currency] <= R.pre[R.id].currentAmount)
        => /\ R.code = 200
           /\ store[R.id].currentAmount
                 = R.pre[R.id].currentAmount - R.amount * Rate[R.currency]
           /\ store[R.id].currentAmount <= R.pre[R.id].currentAmount

C28_Witness ==
    /\ FundDone
    /\ R.id = R.savId
    /\ R.code = 200
    /\ R.pre[R.id].currentAmount = 2
    /\ R.pre[R.id].targetAmount = 2
    /\ R.currency = "USD"
    /\ store[R.id].currentAmount = 0

\* C29: a request that reaches the debit has a converted amount of at most the
\* Savings Goal balance it read, so the floor at 0 never cuts: the balance it
\* computes and the balance it saves are the balance read minus the converted
\* amount, not below 0, whatever other requests do in between.
C29_DebitExact ==
    [][\A s \in Slots :
          LET conv == rq[s].amount * Rate[rq[s].currency]
              read == rq[s].savingsRead.currentAmount
          IN /\ (rq[s].pc # "saveGoalToFund" /\ rq'[s].pc = "saveGoalToFund")
                   => /\ conv <= rq'[s].savingsRead.currentAmount
                      /\ rq'[s].savingsGoal.currentAmount
                            = rq'[s].savingsRead.currentAmount - conv
                      /\ rq'[s].savingsGoal.currentAmount >= 0
             /\ ("savingsGoal" \notin rq[s].saved /\ "savingsGoal" \in rq'[s].saved)
                   => /\ store'[rq[s].savId].currentAmount = read - conv
                      /\ read - conv >= 0]_vars

C29_Witness ==
    /\ \A s \in Slots : rq[s].pc = "done" /\ rq[s].code = 200
    /\ rq["r1"].savingsRead.currentAmount = 2
    /\ rq["r2"].savingsRead.currentAmount = 2
    /\ rq["r1"].id # rq["r1"].savId
    /\ \E s \in Slots :
          store[rq[s].savId].currentAmount
             = rq[s].savingsRead.currentAmount - rq[s].convertedAmount

\* The sum of currentAmount over the goals of a user.
TotalOf(st, userId) ==
    SumByValue(MaxAmt, st, {g \in DOMAIN st : st[g].userId = userId}, "currentAmount")

\* C30: served one after the other and without failing saves, no goal
\* operation raises the sum of currentAmount over a user's goals: createGoal
\* adds a goal at 0, updateGoal keeps currentAmount, deleteGoal and
\* addFundToGoal keep or lower the sum.
C30_NoMoneyCreated ==
    /\ \A g \in DOMAIN store : store[g].currentAmount \in 0 .. MaxAmt
    /\ (R.pc = "done") =>
          /\ \A u \in Users : TotalOf(store, u) <= TotalOf(R.pre, u)
          /\ (R.op = "createGoal" /\ R.code = 200) => store[R.id].currentAmount = 0
          /\ (R.op = "updateGoal" /\ R.code = 200)
                => store[R.id].currentAmount = R.pre[R.id].currentAmount

C30_Witness ==
    /\ FundDone
    /\ R.code = 200
    /\ R.id # R.savId
    /\ R.amount = 1
    /\ TotalOf(store, R.userId) = 2
    /\ TotalOf(R.pre, R.userId) = 2
    /\ store[R.id].currentAmount = R.pre[R.id].currentAmount + 1

\* The sum of the amounts of the transactions at the positions idx, counted
\* value by value.
RECURSIVE AmountsByValue(_, _, _)
AmountsByValue(v, txs, idx) ==
    IF v <= 0 THEN 0
    ELSE v * Cardinality({i \in idx : txs[i].amount = v})
           + AmountsByValue(v - 1, txs, idx)

\* C21: getBudgetRecommendations answers 404 when the caller has no budget,
\* otherwise one entry per budget of the caller with percentage =
\* round(spent / amount * 100), spent being the caller's expenses of the
\* budget's category inside its window; income and the transactions of other
\* users or categories do not count.
C21_Recommendations ==
    (R.pc = "done" /\ R.op = "getBudgetRecommendations") =>
        IF OwnBefore = {}
        THEN R.code = 404 /\ R.msg = "No budgets found for the user."
        ELSE /\ R.code = 200
             /\ DOMAIN R.recommendations = OwnBefore
             /\ \A b \in OwnBefore :
                   LET txs == R.transactions
                       counted ==
                           {i \in 1 .. Len(txs) :
                               /\ txs[i].userId = R.userId
                               /\ txs[i].category = R.pre[b].category
                               /\ txs[i].type = "expense"
                               /\ R.pre[b].duration = "monthly"
                                     => txs[i].age = "thisMonth"}
                       spent == AmountsByValue(MaxTxAmt, txs, counted)
                       a == R.pre[b].amount
                       p == R.recommendations[b]
                   IN /\ 2 * a * p - a <= 200 * spent
                      /\ 200 * spent < 2 * a * p + a

C21_Witness ==
    /\ R.pc = "done" /\ R.op = "getBudgetRecommendations" /\ R.code = 200
    /\ R.userId = "u1"
    /\ R.pre["b1"].amount = 8
    /\ R.pre["b1"].duration = "monthly"
    /\ R.recommendations["b1"] = 13
    /\ Len(R.transactions) = 2
    /\ R.transactions[2].userId = "u1"
    /\ R.transactions[2].category = "Food"
    /\ R.transactions[2].type = "income"
    /\ R.transactions[2].age = "thisMonth"

\* C22: the trends report has totalIncome and totalExpense equal to the sums
\* of the caller's income and expense amounts, netBalance = totalIncome -
\* totalExpense, and a categoryBreakdown whose income and expense entries sum
\* over the categories to the two totals.
C22_Trends ==
    (R.pc = "done" /\ R.op = "generateReport") =>
        LET txs == R.transactions
            mine(type) == {i \in 1 .. Len(txs) :
                              txs[i].userId = R.userId /\ txs[i].type = type}
            income == AmountsByValue(MaxTxAmt, txs, mine("income"))
            expense == AmountsByValue(MaxTxAmt, txs, mine("expense"))
            bd == R.report.categoryBreakdown
            entry(c, f) == IF c \in DOMAIN bd THEN bd[c][f] ELSE 0
        IN /\ R.code = 200
           /\ R.report.totalIncome = income
           /\ R.report.totalExpense = expense
           /\ R.report.netBalance = income - expense
           /\ DOMAIN bd \subseteq ActiveCategories
           /\ entry("Food", "income") + entry("Transport", "income") = income
           /\ entry("Food", "expense") + entry("Transport", "expense") = expense

C22_Witness ==
    /\ R.pc = "done" /\ R.op = "generateReport"
    /\ R.report.totalIncome = 1
    /\ R.report.totalExpense = 2
    /\ R.report.netBalance = -1
    /\ DOMAIN R.report.categoryBreakdown = {"Food", "Transport"}

====
